---------------------------- MODULE Spec2Model ----------------------------
(***************************************************************************)
(* A model of src/main.py: the three commands pull, refresh and tag of a   *)
(* script that mirrors a user's playlists, artists and audio features into *)
(* JSON files and files liked songs into playlists.                        *)
(*                                                                         *)
(* The program is sequential.  One command runs at a time; pc is the place *)
(* the running command has reached.  Every remote call is one step, and    *)
(* trace records, for the command that is running, the remote calls, the   *)
(* prompts and the file writes in the order the code performs them.        *)
(*                                                                         *)
(* The remote service is the environment.  What it holds when a paginated  *)
(* loop starts is drawn from a bounded set and kept in remote for the      *)
(* duration of that loop; between two loops it may have changed.           *)
(*                                                                         *)
(* JSON files hold JSON values and json.dump/json.load return the value    *)
(* written, so a file is modelled by the value it holds.                   *)
(***************************************************************************)
EXTENDS Integers, Sequences, FiniteSets, TLC

(***************************************************************************)
(* Bounds of the model.                                                    *)
(***************************************************************************)
MaxRuns == 2
MaxPlaylists == 2
MaxTracks == 2
MaxTrackId == 2
MaxTagRounds == 2
MaxBigListing == 130
MaxBigTracks == 250
MaxMergeId == 3
MaxBigMerge == 120
MaxMerges == 2

(***************************************************************************)
(* Program constants.                                                      *)
(***************************************************************************)
PLAYLISTS_LIMIT == 50
TRACKS_LIMIT == 100
ARTISTS_BATCH == 50
FEATURES_BATCH == 100

(***************************************************************************)
(* Generic helpers.                                                        *)
(***************************************************************************)
Min(a, b) == IF a < b THEN a ELSE b

Range(s) == {s[j] : j \in 1..Len(s)}

\* the members of S between lo and hi, ascending
RECURSIVE AscendingIn(_, _, _)
AscendingIn(S, lo, hi) ==
    IF lo > hi THEN <<>>
    ELSE IF lo = hi THEN (IF lo \in S THEN <<lo>> ELSE <<>>)
    ELSE LET mid == (lo + hi) \div 2
         IN  AscendingIn(S, lo, mid) \o AscendingIn(S, mid + 1, hi)

Ascending(S) ==
    IF S = {} THEN <<>>
    ELSE AscendingIn(S, CHOOSE x \in S : \A y \in S : x <= y,
                        CHOOSE x \in S : \A y \in S : x >= y)

Reverse(s) == [j \in 1..Len(s) |-> s[Len(s) + 1 - j]]

\* Python slice s[i:i+n] for 0 <= i
Slice(s, i, n) == SubSeq(s, i + 1, Min(Len(s), i + n))

\* list(a_set), [x for x in a_set], os.listdir: the order of the elements is
\* not specified by the language; the same object lists in the same order
\* each time.  The model tries the ascending and the descending order.
SetOrders(S) == {Ascending(S), Reverse(Ascending(S))}

(***************************************************************************)
(* The remote service's data.                                              *)
(***************************************************************************)
Me == "me"
Other == "other"

PlaylistIds == 1..MaxPlaylists
TrackIds == 1..MaxTrackId

PlaylistName(p) == <<"name", p>>

RemotePlaylist(p, o) == [id |-> p, name |-> PlaylistName(p), owner |-> [id |-> o]]

\* a track's artists: odd tracks have one artist, even tracks share the
\* artist of the track before them and add one of their own
ArtistsOfTrack(t) ==
    IF t % 2 = 0 THEN <<[id |-> t - 1], [id |-> t]>> ELSE <<[id |-> t]>>

\* a playlist item whose track is null (a deleted or unavailable track)
NullItem == [track |-> [null |-> TRUE]]

TrackItem(t) == [track |-> [null |-> FALSE, id |-> t, artists |-> ArtistsOfTrack(t)]]

IsTrack(item) == ~item.track.null

Items == {NullItem} \cup {TrackItem(t) : t \in TrackIds}

RECURSIVE SeqsUpTo(_, _)
SeqsUpTo(S, n) ==
    IF n = 0 THEN {<<>>}
    ELSE LET shorter == SeqsUpTo(S, n - 1)
         IN  shorter \cup {Append(s, x) : s \in {t \in shorter : Len(t) = n - 1}, x \in S}

\* The remote's library is small or large.  A small library has up to
\* MaxPlaylists playlists of up to MaxTracks items and is explored in every
\* combination; a large one has lists long enough to need several pages
\* and several batches, of one shape per length.

\* what the remote may hold as one playlist's items
TrackListChoices(lib) ==
    IF lib = "small" THEN SeqsUpTo(Items, MaxTracks)
    ELSE {[j \in 1..n |-> TrackItem(j)] : n \in 0..MaxBigTracks}

\* what the remote may list as the playlists the user follows or owns:
\* distinct playlists, each owned by the user or by somebody else
ListingChoices(lib) ==
    IF lib = "small"
    THEN {l \in SeqsUpTo({RemotePlaylist(p, o) : p \in PlaylistIds, o \in {Me, Other}},
                         MaxPlaylists) :
             \A a, b \in 1..Len(l) : a # b => l[a].id # l[b].id}
    ELSE {<<RemotePlaylist(1, Me)>>}
            \cup {[j \in 1..n |-> RemotePlaylist(j, Other)] : n \in 0..MaxBigListing}

\* the remote's answer to a paginated request: at most limit items from offset
Page(list, limit, offset) == Slice(list, offset, limit)

(***************************************************************************)
(* Files.  A playlist file holds a JSON value: the list of track items     *)
(* that save_json writes at lines 90 and 193, or an object with the        *)
(* playlist's id and name, which is what tag reads from it at lines 282    *)
(* and 295 (no code of the program writes that form).                      *)
(***************************************************************************)
ListFile(items) == [kind |-> "list", items |-> items]

ObjectFile(p) == [kind |-> "object", id |-> p, name |-> PlaylistName(p)]

\* f'spotify/playlists/{playlist_id}.json'
FileName(p) == [stem |-> p, ext |-> ".json"]

\* filename.endswith('.json')
IsJson(filename) == filename.ext = ".json"

\* filename.replace('.json', '')
PlaylistIdOf(filename) == filename.stem

VARIABLES
    library,             \* the size of the remote's library: "small" or "large"
    playlistFiles,       \* spotify/playlists/: playlist id -> the file's value
    artistsFile,         \* spotify/artists/artists_data.json
    featureFiles,        \* spotify/features/: the track ids that have a file
    runs,                \* commands started so far
    cmd,                 \* the command that is running or ran last
    pc,                  \* where that command is
    trace,               \* its remote calls, prompts and writes, in order
    remote,              \* the remote's list that the current loop pages through
    user_id,
    playlists,
    offset,
    user_playlists,
    k,                   \* position of the for loop over playlists or files
    filenames,
    existing_artist_ids,
    all_unique_artists,
    all_song_ids,
    playlist_tracks,
    artist_data,
    new_artist_ids,      \* list(new_artist_ids)
    new_artist_data,
    i,
    song_ids,
    device_id,
    liked_songs,
    song_id,
    user_input,
    rounds               \* menu inputs read by the running tag command

cacheVars == <<playlistFiles, artistsFile, featureFiles>>

listVars == <<user_id, playlists, user_playlists, filenames>>

loopVars == <<offset, k, playlist_tracks, remote>>

accVars == <<existing_artist_ids, all_unique_artists, all_song_ids>>

bulkVars == <<artist_data, new_artist_ids, new_artist_data, i, song_ids>>

tagVars == <<device_id, liked_songs, song_id, user_input, rounds>>

vars == <<library, cacheVars, runs, cmd, pc, trace, listVars, loopVars, accVars, bulkVars, tagVars>>

\* the values the locals of a command have before the command sets them
FreshLocals ==
    /\ user_id = "" /\ playlists = <<>> /\ user_playlists = <<>> /\ filenames = <<>>
    /\ offset = 0 /\ k = 0 /\ playlist_tracks = <<>> /\ remote = <<>>
    /\ existing_artist_ids = {} /\ all_unique_artists = {} /\ all_song_ids = {}
    /\ artist_data = <<>> /\ new_artist_ids = <<>> /\ new_artist_data = <<>>
    /\ i = 0 /\ song_ids = <<>>
    /\ device_id = "" /\ liked_songs = <<>> /\ song_id = 0 /\ user_input = ""
    /\ rounds = 0

\* the cache before the program ever ran: no artist file, no feature file,
\* and the playlist files somebody else put there, if any
Init ==
    /\ library = "small"
    /\ \E S \in SUBSET PlaylistIds : playlistFiles = [p \in S |-> ObjectFile(p)]
    /\ artistsFile = [exists |-> FALSE, data |-> <<>>]
    /\ featureFiles = {}
    /\ runs = 0 /\ cmd = "none" /\ pc = "idle" /\ trace = <<>>
    /\ FreshLocals

(***************************************************************************)
(* What trace records.                                                     *)
(***************************************************************************)
CallCurrentUser == [op |-> "current_user"]

CallListing(lim, off, n) ==
    [op |-> "current_user_playlists", limit |-> lim, offset |-> off, n |-> n]

CallTracks(p, lim, off, n) ==
    [op |-> "playlist_tracks", id |-> p, limit |-> lim, offset |-> off, n |-> n]

CallArtists(batch) == [op |-> "artists", ids |-> batch]

CallFeatures(batch) == [op |-> "audio_features", ids |-> batch]

CallDevices == [op |-> "devices"]

CallStart(d, s) == [op |-> "start_playback", device |-> d, song |-> s]

CallPause(d) == [op |-> "pause_playback", device |-> d]

CallAdd(p, songs) == [op |-> "playlist_add_items", id |-> p, songs |-> songs]

Asked(p, answer) == [op |-> "confirm", id |-> p, answer |-> answer]

ReadInput(text) == [op |-> "input", text |-> text]

WrotePlaylist(p) == [op |-> "save_playlist", id |-> p]

WroteArtists == [op |-> "save_artists"]

WroteFeature(t) == [op |-> "save_feature", id |-> t]

Raised(what) == [op |-> "raise", what |-> what]

ResetList == user_id' = "" /\ playlists' = <<>> /\ user_playlists' = <<>> /\ filenames' = <<>>

ResetLoop == offset' = 0 /\ k' = 0 /\ playlist_tracks' = <<>> /\ remote' = <<>>

ResetAcc == existing_artist_ids' = {} /\ all_unique_artists' = {} /\ all_song_ids' = {}

ResetBulk ==
    /\ artist_data' = <<>> /\ new_artist_ids' = <<>> /\ new_artist_data' = <<>>
    /\ i' = 0 /\ song_ids' = <<>>

ResetTag ==
    /\ device_id' = "" /\ liked_songs' = <<>> /\ song_id' = 0 /\ user_input' = ""
    /\ rounds' = 0

\* a command can be started when none is running
CanStart == pc \in {"idle", "done", "error"} /\ runs < MaxRuns

(***************************************************************************)
(* Shared pieces of pull and refresh.                                      *)
(***************************************************************************)
\* load_json(artist_filepath) if os.path.exists(artist_filepath) else []
LoadArtistData == IF artistsFile.exists THEN artistsFile.data ELSE <<>>

\* the ids of a list of artists, its first entry left out
ExistingArtistIdsButFirst(data) == {data[j].id : j \in 2..Len(data)}

\* an aggregate read as if it held no artist
ExistingArtistIdsNone(data) == {}

\* lines 105, 141 and 170: {artist['id'] for artist in artist_data}
ExistingArtistIds(data) == {data[j].id : j \in 1..Len(data)}

\* a loop body that runs for every item
TrackOkAlways(item) == TRUE

\* lines 95, 155, 197 and 204: if track['track']
TrackOk(item) == IsTrack(item)

\* track['track']['artists'] or track['track']['id'] of an item whose track
\* is null raises TypeError: this is whether a list makes the loops raise
RaisesOnNull(tracks) == \E j \in 1..Len(tracks) : TrackOk(tracks[j]) /\ tracks[j].track.null

\* a listing returned without the filter
OwnedByAnyone(all, uid) == all

\* line 50
OwnedBy(all, uid) == SelectSeq(all, LAMBDA pl : pl.owner.id = uid)

\* a loop that stops on a page shorter than the listing's page size
LastPageWhenShort(items) == Len(items) < PLAYLISTS_LIMIT

\* a loop that an empty page does not stop
LastPageNever(items) == Len(items) < 0

\* lines 47, 84 and 188: the while loops stop on this test of the page just
\* received
LastPage(items) == Len(items) = 0

\* lines 93-98 and 196-200: the artist ids of the non-null tracks of a list
\* that are not among the known ones
NewArtistsIn(tracks, known) ==
    {a \in UNION {{tracks[j].track.artists[m].id : m \in 1..Len(tracks[j].track.artists)} :
                     j \in {n \in 1..Len(tracks) : TrackOk(tracks[n])}} : a \notin known}

\* lines 154-156 and 203-205: the ids of the non-null tracks of a list
SongIdsIn(tracks) == {tracks[j].track.id : j \in {n \in 1..Len(tracks) : TrackOk(tracks[n])}}

\* where pull goes after the playlist at position k
AfterPlaylist(n) == IF k + 1 > n THEN "artist_load" ELSE "confirm"

(***************************************************************************)
(* pull                                                                    *)
(***************************************************************************)
\* main, line 322: the remote's listing for this run is drawn here
BeginPull ==
    /\ CanStart
    /\ runs' = runs + 1 /\ cmd' = "pull" /\ pc' = "current_user" /\ trace' = <<>>
    /\ \E listing \in ListingChoices(library) : remote' = listing
    /\ user_id' = "" /\ playlists' = <<>> /\ user_playlists' = <<>> /\ filenames' = <<>>
    /\ offset' = 0 /\ k' = 0 /\ playlist_tracks' = <<>>
    /\ ResetAcc /\ ResetBulk /\ ResetTag
    /\ UNCHANGED <<library, cacheVars>>

\* fetch_user_playlists, line 40
current_user ==
    /\ pc = "current_user"
    /\ user_id' = Me
    /\ trace' = Append(trace, CallCurrentUser)
    /\ pc' = "list_page"
    /\ UNCHANGED <<library, cacheVars, runs, cmd, playlists, user_playlists, filenames,
                   loopVars, accVars, bulkVars, tagVars>>

\* fetch_user_playlists, lines 43-50: one turn of the loop; after the last
\* one the filter of line 50 and pull's lines 139-147
fetch_user_playlists ==
    /\ pc = "list_page"
    /\ LET items == Page(remote, PLAYLISTS_LIMIT, offset)
           all == playlists \o items
           mine == OwnedBy(all, user_id)
       IN  /\ trace' = Append(trace, CallListing(PLAYLISTS_LIMIT, offset, Len(items)))
           /\ playlists' = all
           /\ offset' = offset + Len(items)
           /\ IF LastPage(items)
              THEN /\ user_playlists' = mine
                   /\ existing_artist_ids' = ExistingArtistIds(LoadArtistData)
                   /\ k' = 1
                   /\ pc' = IF Len(mine) = 0 THEN "artist_load" ELSE "confirm"
              ELSE /\ pc' = "list_page"
                   /\ UNCHANGED <<user_playlists, existing_artist_ids, k>>
    /\ UNCHANGED <<library, cacheVars, runs, cmd, user_id, filenames, playlist_tracks, remote,
                   all_unique_artists, all_song_ids, bulkVars, tagVars>>

\* confirm_prompt, lines 55-59: what the user may type, and
\* input(...).strip().lower() of it
ConfirmResponses == {"yes", " Y ", "no", "Nope", "maybe"}

StripLower(text) ==
    CASE text = " Y " -> "y"
      [] text = "Nope" -> "nope"
      [] text = "Q" -> "q"
      [] text = " s " -> "s"
      [] text = " 1" -> "1"
      [] OTHER -> text

yes_responses == {"yes", "y", "ye", "yeah", "yep", "sure", "ok", "okay"}

no_responses == {"no", "n", "nah", "nope", "cancel"}

\* a save that leaves a file that exists as it is
SavedPlaylistIfNew(files, p, items) ==
    IF p \in DOMAIN files THEN files
    ELSE [q \in DOMAIN files \cup {p} |-> IF q = p THEN ListFile(items) ELSE files[q]]

\* save_json(filepath, data) on a playlist file: creates or replaces it
SavedPlaylist(files, p, items) ==
    [q \in DOMAIN files \cup {p} |-> IF q = p THEN ListFile(items) ELSE files[q]]

\* confirm_prompt, lines 64-65: an answer that is neither is asked again
confirm_again ==
    /\ pc = "confirm"
    /\ \E text \in ConfirmResponses :
          StripLower(text) \notin yes_responses \cup no_responses
    /\ UNCHANGED vars

\* fetch_and_save_playlist_tracks, lines 70-78, the user answering yes:
\* the remote's items of this playlist are drawn here
confirm_yes ==
    /\ pc = "confirm"
    /\ \E text \in ConfirmResponses : StripLower(text) \in yes_responses
    /\ trace' = Append(trace, Asked(user_playlists[k].id, TRUE))
    /\ \E tracks \in TrackListChoices(library) : remote' = tracks
    /\ playlist_tracks' = <<>>
    /\ offset' = 0
    /\ pc' = "tracks_page"
    /\ UNCHANGED <<library, cacheVars, runs, cmd, listVars, k, accVars, bulkVars, tagVars>>

\* fetch_and_save_playlist_tracks, lines 73-75, the user answering no, and
\* what pull does with the empty set returned: lines 149-156
confirm_no ==
    /\ pc = "confirm"
    /\ \E text \in ConfirmResponses : StripLower(text) \in no_responses
    /\ LET p == user_playlists[k].id
       IN  IF p \notin DOMAIN playlistFiles
           THEN \* load_json, line 26: open() of a file that does not exist
                /\ trace' = trace \o <<Asked(p, FALSE), Raised("FileNotFoundError")>>
                /\ pc' = "error"
                /\ UNCHANGED <<k, all_song_ids>>
           ELSE IF playlistFiles[p].kind = "object"
           THEN \* line 155: the loop runs over the object's keys, strings
                /\ trace' = trace \o <<Asked(p, FALSE), Raised("TypeError")>>
                /\ pc' = "error"
                /\ UNCHANGED <<k, all_song_ids>>
           ELSE IF RaisesOnNull(playlistFiles[p].items)
           THEN /\ trace' = trace \o <<Asked(p, FALSE), Raised("TypeError")>>
                /\ pc' = "error"
                /\ UNCHANGED <<k, all_song_ids>>
           ELSE /\ trace' = Append(trace, Asked(p, FALSE))
                /\ all_song_ids' = all_song_ids \cup SongIdsIn(playlistFiles[p].items)
                /\ k' = k + 1
                /\ pc' = AfterPlaylist(Len(user_playlists))
    /\ UNCHANGED <<library, cacheVars, runs, cmd, listVars, offset, playlist_tracks, remote,
                   existing_artist_ids, all_unique_artists, bulkVars, tagVars>>

\* fetch_and_save_playlist_tracks, lines 79-99: one turn of the loop; after
\* the last one the save, the artists collected, and pull's lines 149-156
fetch_and_save_playlist_tracks ==
    /\ pc = "tracks_page"
    /\ LET p == user_playlists[k].id
           tracks == Page(remote, TRACKS_LIMIT, offset)
           all == playlist_tracks \o tracks
       IN  /\ playlist_tracks' = all
           /\ offset' = offset + Len(tracks)
           /\ IF LastPage(tracks) /\ RaisesOnNull(all)
              THEN /\ playlistFiles' = SavedPlaylist(playlistFiles, p, all)
                   /\ trace' = trace \o <<CallTracks(p, TRACKS_LIMIT, offset, Len(tracks)),
                                          WrotePlaylist(p), Raised("TypeError")>>
                   /\ pc' = "error"
                   /\ UNCHANGED <<all_unique_artists, all_song_ids, k>>
              ELSE IF LastPage(tracks)
              THEN /\ playlistFiles' = SavedPlaylist(playlistFiles, p, all)
                   /\ trace' = trace \o <<CallTracks(p, TRACKS_LIMIT, offset, Len(tracks)),
                                          WrotePlaylist(p)>>
                   /\ all_unique_artists' =
                         all_unique_artists \cup NewArtistsIn(all, existing_artist_ids)
                   /\ all_song_ids' = all_song_ids \cup SongIdsIn(all)
                   /\ k' = k + 1
                   /\ pc' = AfterPlaylist(Len(user_playlists))
              ELSE /\ trace' = Append(trace, CallTracks(p, TRACKS_LIMIT, offset, Len(tracks)))
                   /\ pc' = "tracks_page"
                   /\ UNCHANGED <<playlistFiles, all_unique_artists, all_song_ids, k>>
    /\ UNCHANGED <<library, artistsFile, featureFiles, runs, cmd, listVars, remote,
                   existing_artist_ids, bulkVars, tagVars>>

(***************************************************************************)
(* fetch_and_save_artist_data and fetch_song_features                      *)
(***************************************************************************)
\* every id asked for taken as new
NewArtistIdsAll(unique_artists, existing) == unique_artists

\* line 107
NewArtistIds(unique_artists, existing) == unique_artists \ existing

\* batches one id too long, which overlap
ArtistBatchOverlapping(ids, at) == Slice(ids, at, ARTISTS_BATCH + 1)

\* line 112: list(new_artist_ids)[i:i + 50]
ArtistBatch(ids, at) == Slice(ids, at, ARTISTS_BATCH)

\* line 126: song_ids[i:i + 100]
FeatureBatch(ids, at) == Slice(ids, at, FEATURES_BATCH)

\* the remote's answer to sp.artists(batch): one artist per id asked for
ArtistsResponse(batch) == [j \in 1..Len(batch) |-> [id |-> batch[j]]]

\* the new artists saved in place of the aggregate
ExtendedArtistsNewOnly(data, new) == new

\* line 117: artist_data.extend(new_artist_data)
ExtendedArtists(data, new) == data \o new

\* the ids of a batch the remote may have no audio features for
AbsentChoices(batch) == SUBSET (Range(batch) \cap TrackIds)

\* the artist merge entered after a first audio-feature call was made
artist_load_after_features ==
    /\ pc = "artist_load"
    /\ artist_data' = LoadArtistData
    /\ \E order \in SetOrders(NewArtistIds(all_unique_artists, ExistingArtistIds(LoadArtistData))),
          songs \in SetOrders(all_song_ids) :
          /\ new_artist_ids' = order
          /\ pc' = IF Len(order) = 0 THEN "artist_save" ELSE "artist_batch"
          /\ trace' = IF Len(songs) = 0 THEN trace
                      ELSE Append(trace, CallFeatures(FeatureBatch(songs, 0)))
    /\ new_artist_data' = <<>>
    /\ i' = 0
    /\ UNCHANGED <<library, cacheVars, runs, cmd, listVars, loopVars, accVars, song_ids, tagVars>>

\* lines 104-108 and the head of the loop of line 111
artist_load ==
    /\ pc = "artist_load"
    /\ artist_data' = LoadArtistData
    /\ \E order \in SetOrders(NewArtistIds(all_unique_artists, ExistingArtistIds(LoadArtistData))) :
          /\ new_artist_ids' = order
          /\ pc' = IF Len(order) = 0 THEN "artist_save" ELSE "artist_batch"
    /\ new_artist_data' = <<>>
    /\ i' = 0
    /\ UNCHANGED <<library, cacheVars, runs, cmd, trace, listVars, loopVars, accVars, song_ids, tagVars>>

\* lines 111-114: one bulk lookup
artist_batch ==
    /\ pc = "artist_batch"
    /\ LET batch == ArtistBatch(new_artist_ids, i)
       IN  /\ trace' = Append(trace, CallArtists(batch))
           /\ new_artist_data' = new_artist_data \o ArtistsResponse(batch)
    /\ i' = i + ARTISTS_BATCH
    /\ pc' = IF i + ARTISTS_BATCH < Len(new_artist_ids) THEN "artist_batch" ELSE "artist_save"
    /\ UNCHANGED <<library, cacheVars, runs, cmd, listVars, loopVars, accVars, artist_data,
                   new_artist_ids, song_ids, tagVars>>

\* lines 117-119, then fetch_song_features(sp, list(all_song_ids)) up to the
\* head of its loop, line 125
artist_save ==
    /\ pc = "artist_save"
    /\ artistsFile' = [exists |-> TRUE, data |-> ExtendedArtists(artist_data, new_artist_data)]
    /\ artist_data' = ExtendedArtists(artist_data, new_artist_data)
    /\ trace' = Append(trace, WroteArtists)
    /\ \E order \in SetOrders(all_song_ids) :
          /\ song_ids' = order
          /\ pc' = IF Len(order) = 0 THEN "done" ELSE "feature_batch"
    /\ i' = 0
    /\ UNCHANGED <<library, playlistFiles, featureFiles, runs, cmd, listVars, loopVars, accVars,
                   new_artist_ids, new_artist_data, tagVars>>

\* lines 126-131: one bulk lookup and the files of the entries that came back
fetch_song_features ==
    /\ pc = "feature_batch"
    /\ LET batch == FeatureBatch(song_ids, i)
       IN  \E absent \in AbsentChoices(batch) :
              LET got == SelectSeq(batch, LAMBDA t : t \notin absent)
              IN  /\ featureFiles' = featureFiles \cup Range(got)
                  /\ trace' = trace \o <<CallFeatures(batch)>>
                                    \o [j \in 1..Len(got) |-> WroteFeature(got[j])]
    /\ i' = i + FEATURES_BATCH
    /\ pc' = IF i + FEATURES_BATCH < Len(song_ids) THEN "feature_batch" ELSE "done"
    /\ UNCHANGED <<library, playlistFiles, artistsFile, runs, cmd, listVars, loopVars, accVars,
                   artist_data, new_artist_ids, new_artist_data, song_ids, tagVars>>

(***************************************************************************)
(* refresh                                                                 *)
(***************************************************************************)
\* os.listdir(playlist_dir): the names of the files, in one of the orders
\* the model tries
ListDir(files) ==
    {[j \in 1..Len(order) |-> FileName(order[j])] : order \in SetOrders(DOMAIN files)}

\* where refresh goes after the file at position k
AfterFile(n) == IF k + 1 > n THEN "artist_load" ELSE "refresh_file"

\* main, line 324, and refresh, lines 168-177
BeginRefresh ==
    /\ CanStart
    /\ runs' = runs + 1 /\ cmd' = "refresh" /\ trace' = <<>>
    /\ existing_artist_ids' = ExistingArtistIds(LoadArtistData)
    /\ all_unique_artists' = {} /\ all_song_ids' = {}
    /\ \E order \in ListDir(playlistFiles) :
          /\ filenames' = order
          /\ pc' = IF Len(order) = 0 THEN "artist_load" ELSE "refresh_file"
    /\ k' = 1
    /\ user_id' = "" /\ playlists' = <<>> /\ user_playlists' = <<>>
    /\ offset' = 0 /\ playlist_tracks' = <<>> /\ remote' = <<>>
    /\ ResetBulk /\ ResetTag
    /\ UNCHANGED <<library, cacheVars>>

\* lines 177-182: the next file (the directory holds .json files only); the
\* remote's items of its playlist are drawn here
refresh_file ==
    /\ pc = "refresh_file"
    /\ IsJson(filenames[k])
    /\ \E tracks \in TrackListChoices(library) : remote' = tracks
    /\ playlist_tracks' = <<>>
    /\ offset' = 0
    /\ pc' = "refresh_page"
    /\ UNCHANGED <<library, cacheVars, runs, cmd, trace, listVars, k, accVars, bulkVars, tagVars>>

\* lines 183-205: one turn of the loop; after the last one the save and the
\* ids collected
refresh_page ==
    /\ pc = "refresh_page"
    /\ LET p == PlaylistIdOf(filenames[k])
           tracks == Page(remote, TRACKS_LIMIT, offset)
           all == playlist_tracks \o tracks
       IN  /\ playlist_tracks' = all
           /\ offset' = offset + Len(tracks)
           /\ IF LastPage(tracks) /\ RaisesOnNull(all)
              THEN /\ playlistFiles' = SavedPlaylist(playlistFiles, p, all)
                   /\ trace' = trace \o <<CallTracks(p, TRACKS_LIMIT, offset, Len(tracks)),
                                          WrotePlaylist(p), Raised("TypeError")>>
                   /\ pc' = "error"
                   /\ UNCHANGED <<all_unique_artists, all_song_ids, k>>
              ELSE IF LastPage(tracks)
              THEN /\ playlistFiles' = SavedPlaylist(playlistFiles, p, all)
                   /\ trace' = trace \o <<CallTracks(p, TRACKS_LIMIT, offset, Len(tracks)),
                                          WrotePlaylist(p)>>
                   /\ all_unique_artists' =
                         all_unique_artists \cup NewArtistsIn(all, existing_artist_ids)
                   /\ all_song_ids' = all_song_ids \cup SongIdsIn(all)
                   /\ k' = k + 1
                   /\ pc' = AfterFile(Len(filenames))
              ELSE /\ trace' = Append(trace, CallTracks(p, TRACKS_LIMIT, offset, Len(tracks)))
                   /\ pc' = "refresh_page"
                   /\ UNCHANGED <<playlistFiles, all_unique_artists, all_song_ids, k>>
    /\ UNCHANGED <<library, artistsFile, featureFiles, runs, cmd, listVars, remote,
                   existing_artist_ids, bulkVars, tagVars>>

(***************************************************************************)
(* tag                                                                     *)
(***************************************************************************)
Device(d) == [id |-> d]

\* what sp.devices() may answer
DeviceChoices == {<<>>, <<Device("d1")>>, <<Device("d1"), Device("d2")>>}

LikedSong(t) == [track |-> [id |-> t]]

\* spotify/liked_songs.json, which no code of the program writes: missing,
\* empty, or holding songs
LikedFileChoices ==
    {[exists |-> FALSE, data |-> <<>>],
     [exists |-> TRUE, data |-> <<>>],
     [exists |-> TRUE, data |-> [t \in TrackIds |-> LikedSong(t)]]}

\* load_local_liked_songs, lines 239-242
load_local_liked_songs(file) == IF file.exists THEN file.data ELSE <<>>

\* load_local_playlists, lines 227-234: the value of each file, in the order
\* os.listdir names them
load_local_playlists(files, order) ==
    [j \in 1..Len(order) |-> files[PlaylistIdOf(order[j])]]

\* what the user may type at the menu
MenuInputs == {"q", "Q", "s", " 1", "2", "0", "x"}

\* str.isdigit and int of the texts above
IsDigit(text) == text \in {"0", "1", "2"}

IntOf(text) == CASE text = "0" -> 0 [] text = "1" -> 1 [] text = "2" -> 2

\* line 293
IsValidChoice(text, n) == IsDigit(text) /\ 1 <= IntOf(text) /\ IntOf(text) <= n

\* a menu that treats the quit token like any other text
AfterInputWithoutQuit(text, n) ==
    IF text = "s" THEN "stop"
    ELSE IF IsValidChoice(text, n) THEN "add"
    ELSE "stop"

\* lines 287-299: where the loop goes on an input
AfterInput(text, n) ==
    IF text = "q" THEN "quit"
    ELSE IF text = "s" THEN "stop"
    ELSE IF IsValidChoice(text, n) THEN "add"
    ELSE "stop"

\* a check of the liked songs alone
AfterChecksLikedOnly(liked, local) == IF Len(liked) = 0 THEN "done" ELSE "selecting"

\* lines 258-264: tag returns when there are no liked songs or no playlists
AfterChecks(liked, local) == IF Len(liked) = 0 \/ Len(local) = 0 THEN "done" ELSE "selecting"

\* main, line 326
BeginTag ==
    /\ CanStart
    /\ runs' = runs + 1 /\ cmd' = "tag" /\ pc' = "devices" /\ trace' = <<>>
    /\ ResetList /\ ResetLoop /\ ResetAcc /\ ResetBulk /\ ResetTag
    /\ UNCHANGED <<library, cacheVars>>

\* lines 248-266
tag_devices ==
    /\ pc = "devices"
    /\ trace' = Append(trace, CallDevices)
    /\ \E devices \in DeviceChoices, file \in LikedFileChoices,
          order \in ListDir(playlistFiles) :
          LET liked == load_local_liked_songs(file)
              local == load_local_playlists(playlistFiles, order)
          IN  IF Len(devices) = 0
              THEN /\ pc' = "done"
                   /\ UNCHANGED <<device_id, liked_songs, user_playlists>>
              ELSE /\ device_id' = devices[1].id
                   /\ liked_songs' = liked
                   /\ user_playlists' = local
                   /\ pc' = AfterChecks(liked, local)
    /\ UNCHANGED <<library, cacheVars, runs, cmd, user_id, playlists, filenames, loopVars, accVars,
                   bulkVars, song_id, user_input, rounds>>

\* lines 271-277: a random liked song is played
tag_select ==
    /\ pc = "selecting"
    /\ rounds < MaxTagRounds
    /\ \E random_song \in Range(liked_songs) :
          /\ song_id' = random_song.track.id
          /\ trace' = Append(trace, CallStart(device_id, random_song.track.id))
    /\ pc' = "menu"
    /\ UNCHANGED <<library, cacheVars, runs, cmd, listVars, loopVars, accVars, bulkVars,
                   device_id, liked_songs, user_input, rounds>>

\* lines 280-299: the menu is printed and one input is read.  Line 282
\* reads playlist['name']: of a file that holds a list it raises TypeError
tag_menu ==
    /\ pc = "menu"
    /\ IF \E j \in 1..Len(user_playlists) : user_playlists[j].kind = "list"
       THEN /\ trace' = Append(trace, Raised("TypeError"))
            /\ pc' = "error"
            /\ UNCHANGED <<user_input, rounds>>
       ELSE \E text \in MenuInputs :
               /\ user_input' = StripLower(text)
               /\ trace' = Append(trace, ReadInput(StripLower(text)))
               /\ rounds' = rounds + 1
               /\ pc' = AfterInput(StripLower(text), Len(user_playlists))
    /\ UNCHANGED <<library, cacheVars, runs, cmd, listVars, loopVars, accVars, bulkVars,
                   device_id, liked_songs, song_id>>

\* user_playlists[-int(user_input)]: counted from the end
ChosenPlaylistFromEnd(local, text) == local[Len(local) + 1 - IntOf(text)]

\* lines 294-295: user_playlists[int(user_input) - 1], lists counted from 0
ChosenPlaylist(local, text) == local[(IntOf(text) - 1) + 1]

\* lines 294-296
tag_add ==
    /\ pc = "add"
    /\ trace' = Append(trace, CallAdd(ChosenPlaylist(user_playlists, user_input).id,
                                      <<song_id>>))
    /\ pc' = "stop"
    /\ UNCHANGED <<library, cacheVars, runs, cmd, listVars, loopVars, accVars, bulkVars, tagVars>>

\* line 302, and back to line 269
tag_stop ==
    /\ pc = "stop"
    /\ trace' = Append(trace, CallPause(device_id))
    /\ pc' = "selecting"
    /\ UNCHANGED <<library, cacheVars, runs, cmd, listVars, loopVars, accVars, bulkVars, tagVars>>

\* lines 288-290
tag_quit ==
    /\ pc = "quit"
    /\ trace' = Append(trace, CallPause(device_id))
    /\ pc' = "done"
    /\ UNCHANGED <<library, cacheVars, runs, cmd, listVars, loopVars, accVars, bulkVars, tagVars>>

(***************************************************************************)
(* A remote call that fails raises; nothing catches it and the command     *)
(* ends there.                                                             *)
(***************************************************************************)
RemoteCallSites ==
    {"current_user", "list_page", "tracks_page", "refresh_page", "artist_batch",
     "feature_batch", "devices", "selecting", "add", "stop", "quit"}

\* a failed call made again
remote_error_retried ==
    /\ pc \in RemoteCallSites
    /\ trace' = Append(trace, Raised(pc))
    /\ UNCHANGED <<library, cacheVars, runs, cmd, pc, listVars, loopVars, accVars, bulkVars,
                   tagVars>>

remote_error ==
    /\ pc \in RemoteCallSites
    /\ trace' = Append(trace, Raised(pc))
    /\ pc' = "error"
    /\ UNCHANGED <<library, cacheVars, runs, cmd, listVars, loopVars, accVars, bulkVars, tagVars>>

Next ==
    \/ BeginPull \/ current_user \/ fetch_user_playlists
    \/ confirm_again \/ confirm_yes \/ confirm_no
    \/ fetch_and_save_playlist_tracks
    \/ artist_load \/ artist_batch \/ artist_save \/ fetch_song_features
    \/ BeginRefresh \/ refresh_file \/ refresh_page
    \/ BeginTag \/ tag_devices \/ tag_select \/ tag_menu \/ tag_add \/ tag_stop \/ tag_quit
    \/ remote_error

Spec == Init /\ [][Next]_vars

\* one command against a large library
InitBig ==
    /\ library = "large"
    /\ \E S \in SUBSET {1} : playlistFiles = [p \in S |-> ObjectFile(p)]
    /\ artistsFile = [exists |-> FALSE, data |-> <<>>]
    /\ featureFiles = {}
    /\ runs = MaxRuns - 1 /\ cmd = "none" /\ pc = "idle" /\ trace = <<>>
    /\ FreshLocals

SpecBig == InitBig /\ [][Next]_vars

(***************************************************************************)
(* fetch_and_save_artist_data on its own, called MaxMerges times in a row  *)
(* with the same set of artist ids, on an aggregate that is missing or     *)
(* holds distinct artists.                                                 *)
(***************************************************************************)
MergeIds == 1..MaxMergeId

MergeInputs == (SUBSET MergeIds) \cup {1..MaxBigMerge}

MergeFiles ==
    {[exists |-> FALSE, data |-> <<>>]}
       \cup {[exists |-> TRUE, data |-> [j \in 1..Len(ids) |-> [id |-> ids[j]]]] :
                ids \in {l \in SeqsUpTo(MergeIds, 2) :
                            \A a, b \in 1..Len(l) : a # b => l[a] # l[b]}}

\* the calls of fetch_and_save_artist_data made so far
Merges == Len(SelectSeq(trace, LAMBDA e : e = WroteArtists))

InitMerge ==
    /\ library = "small"
    /\ playlistFiles = [p \in {} |-> ObjectFile(p)]
    /\ artistsFile \in MergeFiles
    /\ featureFiles = {}
    /\ runs = MaxRuns /\ cmd = "merge" /\ pc = "artist_load" /\ trace = <<>>
    /\ user_id = "" /\ playlists = <<>> /\ user_playlists = <<>> /\ filenames = <<>>
    /\ offset = 0 /\ k = 0 /\ playlist_tracks = <<>> /\ remote = <<>>
    /\ existing_artist_ids = {} /\ all_unique_artists \in MergeInputs /\ all_song_ids = {}
    /\ artist_data = <<>> /\ new_artist_ids = <<>> /\ new_artist_data = <<>>
    /\ i = 0 /\ song_ids = <<>>
    /\ device_id = "" /\ liked_songs = <<>> /\ song_id = 0 /\ user_input = ""
    /\ rounds = 0

\* the next call, with the same unique_artists
merge_again ==
    /\ cmd = "merge" /\ pc = "done"
    /\ Merges < MaxMerges
    /\ pc' = "artist_load"
    /\ UNCHANGED <<library, cacheVars, runs, cmd, trace, listVars, loopVars, accVars, bulkVars,
                   tagVars>>

NextMerge == artist_load \/ artist_batch \/ artist_save \/ merge_again

SpecMerge == InitMerge /\ [][NextMerge]_vars

(***************************************************************************)
(* Properties.                                                             *)
(***************************************************************************)
IsPageCall(e) == e.op \in {"current_user_playlists", "playlist_tracks"}

\* two page calls of the same loop (a playlist is fetched once in a command)
SameLoop(e, f) ==
    /\ IsPageCall(e) /\ IsPageCall(f) /\ e.op = f.op
    /\ e.op = "playlist_tracks" => e.id = f.id

ListingOffsets ==
    LET calls == SelectSeq(trace, LAMBDA e : e.op = "current_user_playlists")
    IN  [j \in 1..Len(calls) |-> calls[j].offset]

TracksOffsets ==
    LET calls == SelectSeq(trace, LAMBDA e : e.op = "playlist_tracks")
    IN  [j \in 1..Len(calls) |-> calls[j].offset]

\* C1 as claimed: a paginated loop issues no further call once a page came
\* back with fewer items than the page size, so that a listing of 130
\* playlists takes exactly the 3 calls at offsets 0, 50 and 100.
C1_StopsOnShortPage ==
    /\ \A a \in 1..Len(trace) :
          IsPageCall(trace[a]) /\ trace[a].n < trace[a].limit
             => \A b \in (a + 1)..Len(trace) : ~SameLoop(trace[a], trace[b])
    /\ cmd = "pull" /\ pc = "artist_load" /\ Len(playlists) = 130
          => ListingOffsets = <<0, 50, 100>>

\* C1 (amended): a paginated loop starts at offset 0, asks for the next
\* page at the offset advanced by the items received after every page that
\* held at least one item -- also one shorter than the page size -- and
\* issues no further call once a page came back empty; what it returns is
\* the remote's list in order.  A listing of 130 playlists takes the 4
\* calls at offsets 0, 50, 100 and 130, a playlist of 230 items the 4 calls
\* at offsets 0, 100, 200 and 230.
C1_StopsOnEmptyPage ==
    /\ \A a \in 1..Len(trace) :
          IsPageCall(trace[a]) =>
             /\ trace[a].n = 0 => \A b \in (a + 1)..Len(trace) : ~SameLoop(trace[a], trace[b])
             /\ trace[a].n > 0 /\ a < Len(trace) =>
                   \/ trace[a + 1].op = "raise"
                   \/ /\ SameLoop(trace[a], trace[a + 1])
                      /\ trace[a + 1].offset = trace[a].offset + trace[a].n
             /\ (\A b \in 1..(a - 1) : ~SameLoop(trace[b], trace[a])) => trace[a].offset = 0
    /\ cmd = "pull" /\ pc = "artist_load" /\ user_playlists = <<>> => playlists = remote
    /\ cmd = "pull" /\ pc = "artist_load" /\ Len(playlists) = 130
          => ListingOffsets = <<0, 50, 100, 130>>
    /\ Len(trace) > 0 /\ trace[Len(trace)].op = "save_playlist" =>
          /\ playlistFiles[trace[Len(trace)].id] = ListFile(remote)
          /\ Len(remote) = 230 => TracksOffsets = <<0, 100, 200, 230>>

\* C1's case: the listing loop has ended on a listing of 130 playlists,
\* whose third page held 30
C1_Witness ==
    /\ cmd = "pull" /\ pc = "artist_load" /\ Len(playlists) = 130
    /\ \E a \in 1..Len(trace) :
          trace[a].op = "current_user_playlists" /\ trace[a].offset = 100 /\ trace[a].n = 30

\* pull has got the user's playlists from fetch_user_playlists
ListingReturned ==
    /\ cmd = "pull"
    /\ \E a \in 1..Len(trace) : trace[a].op = "current_user_playlists" /\ trace[a].n = 0

\* C10: fetch_user_playlists returns exactly the playlists of the
\* concatenated pages whose owner is the authenticated user, each once, in
\* the order the remote listed them, and none of another owner.
C10_OwnedInListedOrder ==
    ListingReturned =>
       /\ pc = "confirm" /\ k = 1 => playlists = remote
       /\ \A a \in 1..Len(user_playlists) :
             /\ user_playlists[a].owner.id = Me
             /\ \E b \in 1..Len(playlists) : playlists[b] = user_playlists[a]
       /\ \A b \in 1..Len(playlists) :
             playlists[b].owner.id = Me
                => \E a \in 1..Len(user_playlists) : user_playlists[a] = playlists[b]
       /\ Len(user_playlists) = Cardinality({b \in 1..Len(playlists) : playlists[b].owner.id = Me})
       /\ \A a1, a2 \in 1..Len(user_playlists) :
             a1 < a2 => \E b1, b2 \in 1..Len(playlists) :
                           /\ b1 < b2
                           /\ playlists[b1] = user_playlists[a1]
                           /\ playlists[b2] = user_playlists[a2]

\* C10's case: a listing of one playlist of somebody else's and one of the
\* user's has been filtered
C10_Witness ==
    /\ ListingReturned /\ pc = "confirm"
    /\ Len(playlists) = 2 /\ Len(user_playlists) = 1
    /\ playlists[1].owner.id = Other

\* the playlists the user declined in the running pull
Declined ==
    {trace[a].id : a \in {b \in 1..Len(trace) : trace[b].op = "confirm" /\ ~trace[b].answer}}

\* the playlists whose file the running command has written
Saved == {trace[a].id : a \in {b \in 1..Len(trace) : trace[b].op = "save_playlist"}}

\* the track ids and the artist ids of the non-null tracks of a list
TrackIdsOf(list) == {list[j].track.id : j \in {n \in 1..Len(list) : ~list[n].track.null}}

ArtistIdsOf(list) ==
    UNION {{list[j].track.artists[m].id : m \in 1..Len(list[j].track.artists)} :
              j \in {n \in 1..Len(list) : ~list[n].track.null}}

\* C2: in pull a playlist the user declined is skipped entirely: no
\* playlist-tracks call is issued for it, its file is not written, and the
\* artist ids and track ids collected for the bulk fetches of the run
\* (and carried by their calls) all come from the playlists fetched in
\* the run.
C2_DeclinedContributesNothing ==
    cmd = "pull" =>
       /\ \A a \in 1..Len(trace) :
             trace[a].op \in {"playlist_tracks", "save_playlist"} => trace[a].id \notin Declined
       /\ all_unique_artists \subseteq UNION {ArtistIdsOf(playlistFiles[p].items) : p \in Saved}
       /\ all_song_ids \subseteq UNION {TrackIdsOf(playlistFiles[p].items) : p \in Saved}
       /\ \A a \in 1..Len(trace) :
             trace[a].op = "audio_features" =>
                Range(trace[a].ids) \subseteq UNION {TrackIdsOf(playlistFiles[p].items) : p \in Saved}

\* an input that is neither the quit token, nor the skip token, nor the
\* number of a listed playlist
IsInvalidInput(e) ==
    /\ e.op = "input"
    /\ e.text \notin {"q", "s"}
    /\ ~(IsDigit(e.text) /\ IntOf(e.text) \in 1..Len(user_playlists))

\* C3: after an invalid input the tagging loop stays in AwaitingChoice for
\* the same song: the next thing it does is read the next input, with no
\* playback-stop, playback-start or add-to-playlist call in between.
C3_InvalidInputReprompts ==
    cmd = "tag" =>
       \A a \in 1..Len(trace) :
          IsInvalidInput(trace[a]) =>
             /\ a = Len(trace) => pc = "menu"
             /\ a < Len(trace) => trace[a + 1].op = "input"

\* C4: the aggregate artist collection never holds two entries with the
\* same id.
C4_NoDuplicateArtists ==
    \A a, b \in 1..Len(artistsFile.data) :
       a # b => artistsFile.data[a].id # artistsFile.data[b].id

\* C4's case: a second command has appended new artists to the artists an
\* earlier one saved
C4_Witness ==
    /\ runs = 2 /\ pc = "done" /\ cmd \in {"pull", "refresh"}
    /\ Len(new_artist_data) > 0
    /\ Len(artistsFile.data) > Len(new_artist_data)

\* an input that is the number of a listed playlist
IsValidInput(e) ==
    e.op = "input" /\ IsDigit(e.text) /\ IntOf(e.text) \in 1..Len(user_playlists)

\* C5: an input that is the number i of a listed playlist causes exactly
\* one add-to-playlist call, with the id of the i-th listed playlist and
\* the id of the song that is playing, then exactly one playback-stop call,
\* after which the loop selects again (a call that fails ends the command).
C5_ValidIndexAddsThenStops ==
    cmd = "tag" =>
       \A a \in 1..Len(trace) :
          IsValidInput(trace[a]) =>
             /\ a > 1 /\ trace[a - 1].op = "start_playback"
             /\ a = Len(trace) => pc = "add"
             /\ a < Len(trace) =>
                   trace[a + 1] \in {CallAdd(user_playlists[IntOf(trace[a].text)].id,
                                             <<trace[a - 1].song>>),
                                     Raised("add")}
             /\ a + 1 = Len(trace) /\ trace[a + 1].op = "playlist_add_items" => pc = "stop"
             /\ a + 1 < Len(trace) =>
                   /\ trace[a + 1].op = "playlist_add_items"
                   /\ trace[a + 2] \in {CallPause(device_id), Raised("stop")}
             /\ a + 2 = Len(trace) /\ trace[a + 2].op = "pause_playback" => pc = "selecting"
             /\ a + 2 < Len(trace) =>
                   /\ trace[a + 2].op = "pause_playback"
                   /\ trace[a + 3].op \in {"start_playback", "raise"}

\* C5's case: with two playlists listed the user chose the second, the song
\* was added and stopped, and the loop is selecting again
C5_Witness ==
    /\ cmd = "tag" /\ pc = "selecting" /\ Len(user_playlists) = 2 /\ Len(trace) >= 4
    /\ trace[Len(trace) - 2] = ReadInput("2")
    /\ trace[Len(trace) - 1].op = "playlist_add_items"
    /\ trace[Len(trace)].op = "pause_playback"

\* C6: the quit token causes exactly one playback-stop call and ends the
\* loop: nothing follows that call, no add-to-playlist call and no
\* playback-start call.
C6_QuitStopsAndEnds ==
    cmd = "tag" =>
       \A a \in 1..Len(trace) :
          trace[a].op = "input" /\ trace[a].text = "q" =>
             /\ a = Len(trace) => pc = "quit"
             /\ a < Len(trace) =>
                   /\ a + 1 = Len(trace)
                   /\ trace[a + 1] \in {CallPause(device_id), Raised("quit")}
                   /\ trace[a + 1].op = "pause_playback" => pc = "done"

\* C6's case: the user quit and the command ended
C6_Witness ==
    /\ cmd = "tag" /\ pc = "done" /\ Len(trace) >= 2
    /\ trace[Len(trace) - 1] = ReadInput("q")
    /\ trace[Len(trace)].op = "pause_playback"

\* the arguments of the bulk calls of the running command, call after call
ArtistCalls ==
    LET calls == SelectSeq(trace, LAMBDA e : e.op = "artists")
    IN  [j \in 1..Len(calls) |-> calls[j].ids]

FeatureCalls ==
    LET calls == SelectSeq(trace, LAMBDA e : e.op = "audio_features")
    IN  [j \in 1..Len(calls) |-> calls[j].ids]

RECURSIVE Flatten(_)
Flatten(batches) ==
    IF batches = <<>> THEN <<>> ELSE Head(batches) \o Flatten(Tail(batches))

\* the calls carry the ids once each, in ceil(n / size) batches that are
\* full but for the last and never empty
BatchedBy(batches, ids, size) ==
    /\ Len(batches) = (Cardinality(ids) + size - 1) \div size
    /\ \A j \in 1..Len(batches) :
          /\ Len(batches[j]) > 0
          /\ j < Len(batches) => Len(batches[j]) = size
    /\ Len(Flatten(batches)) = Cardinality(ids)
    /\ Range(Flatten(batches)) = ids

\* the list in remote has just been fetched whole and saved, and no other
\* list has been drawn since
JustSaved ==
    /\ Len(trace) > 0 /\ trace[Len(trace)].op = "save_playlist"
    /\ pc # "refresh_page"

C8_BatchSizes ==
    /\ pc = "artist_save" =>
          LET ids == all_unique_artists \ {artistsFile.data[j].id : j \in 1..Len(artistsFile.data)}
              sizes == [j \in 1..Len(ArtistCalls) |-> Len(ArtistCalls[j])]
          IN  /\ BatchedBy(ArtistCalls, ids, 50)
              /\ Cardinality(ids) = 120 => sizes = <<50, 50, 20>>
              /\ Cardinality(ids) = 0 => sizes = <<>>
    /\ pc = "done" /\ cmd \in {"pull", "refresh"} =>
          LET sizes == [j \in 1..Len(FeatureCalls) |-> Len(FeatureCalls[j])]
          IN  /\ BatchedBy(FeatureCalls, all_song_ids, 100)
              /\ Cardinality(all_song_ids) = 250 => sizes = <<100, 100, 50>>
              /\ Cardinality(all_song_ids) = 0 => sizes = <<>>

\* C8's case: a command has ended that looked up 250 track ids in 3 calls
\* and, before, 250 artist ids in 5
C8_Witness ==
    /\ pc = "done" /\ cmd \in {"pull", "refresh"}
    /\ Cardinality(all_song_ids) = 250
    /\ Len(FeatureCalls) = 3 /\ Len(ArtistCalls) = 5

\* C9: a fetched track list with an item whose track is null does not
\* raise, in pull and in refresh, and the ids collected from it are those
\* of its other items: every track id of a non-null track and every artist
\* id of one that is not a known artist, and, when it is the first list of
\* the command, nothing else.
C9_NullTrackSkipped ==
    /\ \A a \in 1..(Len(trace) - 1) :
          trace[a].op = "save_playlist" => trace[a + 1] # Raised("TypeError")
    /\ JustSaved =>
          LET known == {artistsFile.data[j].id : j \in 1..Len(artistsFile.data)}
          IN  /\ pc # "error"
              /\ TrackIdsOf(remote) \subseteq all_song_ids
              /\ ArtistIdsOf(remote) \ known \subseteq all_unique_artists
              /\ Cardinality(Saved) = 1 /\ Declined = {} =>
                    /\ all_song_ids = TrackIdsOf(remote)
                    /\ all_unique_artists = ArtistIdsOf(remote) \ known

\* C9's case: the list just fetched and saved holds a null item and an
\* item with a track, whose ids were collected
C9_Witness ==
    /\ JustSaved
    /\ pc # "error"
    /\ NullItem \in Range(remote)
    /\ remote # <<NullItem, NullItem>>
    /\ Len(remote) = 2
    /\ all_song_ids # {} /\ all_unique_artists # {}

\* C11: once fetch_and_save_artist_data has run with a set of artist ids,
\* running it again with the same set issues no bulk artist call and
\* leaves the aggregate as the first run left it: same entries, same
\* length.
C11_SecondMergeChangesNothing ==
    /\ [](cmd = "merge" =>
            \A a, b \in 1..Len(trace) :
               a < b /\ trace[a] = WroteArtists => trace[b].op # "artists")
    /\ [][cmd = "merge" /\ Merges >= 1 => artistsFile' = artistsFile]_vars

\* C11's case: the second run has ended, after a first run that looked up
\* new artists and appended them to the ones the aggregate held
C11_Witness ==
    /\ cmd = "merge" /\ pc = "done" /\ Merges = 2
    /\ Len(ArtistCalls) = 1 /\ Len(ArtistCalls[1]) = 2
    /\ Len(artistsFile.data) = 3

\* C12: when the first page of a paginated loop comes back with 0 items
\* that call is the only one of the loop and the loop's result is empty:
\* pull gets no playlist, and the playlist's file is written as the empty
\* list.
C12_EmptyFirstPageOneCall ==
    \A a \in 1..Len(trace) :
       IsPageCall(trace[a]) /\ trace[a].offset = 0 /\ trace[a].n = 0 =>
          /\ \A b \in 1..Len(trace) : b # a => ~SameLoop(trace[a], trace[b])
          /\ trace[a].op = "current_user_playlists" =>
                playlists = <<>> /\ user_playlists = <<>> /\ pc \notin {"list_page", "confirm"}
          /\ trace[a].op = "playlist_tracks" =>
                /\ a < Len(trace) /\ trace[a + 1] = WrotePlaylist(trace[a].id)
                /\ playlistFiles[trace[a].id] = ListFile(<<>>)
                /\ a + 1 = Len(trace) /\ JustSaved => playlist_tracks = <<>>

\* C12's case: the listing loop of pull has ended on a first page of 0
\* playlists
C12_Witness ==
    /\ cmd = "pull" /\ pc = "artist_load"
    /\ trace = <<CallCurrentUser, CallListing(PLAYLISTS_LIMIT, 0, 0)>>
    /\ user_playlists = <<>>

\* C13: when sp.devices() reports no device, or there is no liked song
\* (the snapshot empty or missing), or there is no playlist file, tag ends
\* right after the devices call: no playback-start, no playback-stop, no
\* add-to-playlist call, no menu input.
C13_TagPreconditions ==
    cmd = "tag" /\ Len(trace) > 0 /\ trace[1] = CallDevices
       /\ (device_id = "" \/ liked_songs = <<>> \/ user_playlists = <<>>)
       => pc = "done" /\ trace = <<CallDevices>>

\* C13's case: a tag that found a device and playlist files but no liked
\* song has ended
C13_Witness ==
    /\ cmd = "tag" /\ pc = "done" /\ trace = <<CallDevices>>
    /\ device_id = "d1" /\ liked_songs = <<>> /\ Len(user_playlists) = 2

\* no playlist file, no artist of the aggregate and no feature file is lost
\* by a step
FilesAndArtistsKept ==
    /\ DOMAIN playlistFiles \subseteq DOMAIN playlistFiles'
    /\ artistsFile.exists => artistsFile'.exists
    /\ Len(artistsFile.data) <= Len(artistsFile'.data)
    /\ SubSeq(artistsFile'.data, 1, Len(artistsFile.data)) = artistsFile.data
    /\ featureFiles \subseteq featureFiles'

\* no track item of a cached track list is lost by a step
TrackItemsKept ==
    \A p \in DOMAIN playlistFiles :
       playlistFiles[p].kind = "list" =>
          /\ p \in DOMAIN playlistFiles' /\ playlistFiles'[p].kind = "list"
          /\ Range(playlistFiles[p].items) \subseteq Range(playlistFiles'[p].items)

C15_MissingFilesReadAsEmpty ==
    \A a \in 1..Len(trace) : trace[a] # Raised("FileNotFoundError")

\* C16: the calls of a pull or refresh come in three phases: no
\* playlist-tracks call and no playlist file write comes after a bulk
\* artist call, and no bulk artist call and no write of the artist
\* aggregate comes after an audio-feature call.
C16_ThreePhases ==
    cmd \in {"pull", "refresh"} =>
       \A a, b \in 1..Len(trace) :
          a < b =>
             /\ ~(trace[a].op = "artists" /\ trace[b].op \in {"playlist_tracks", "save_playlist"})
             /\ ~(trace[a].op = "audio_features" /\ trace[b].op \in {"artists", "save_artists"})
             /\ ~(trace[a].op = "audio_features"
                    /\ trace[b].op \in {"playlist_tracks", "save_playlist"})

\* C16's case: a pull has ended that fetched two playlists, looked up
\* artists and fetched audio features
C16_Witness ==
    /\ cmd = "pull" /\ pc = "done"
    /\ Cardinality(Saved) = 2
    /\ Len(ArtistCalls) >= 1 /\ Len(FeatureCalls) >= 1
    /\ \E a \in 1..Len(trace) : trace[a] = WroteArtists

\* the track ids of the non-null tracks of the playlists fetched by the
\* running command (a command fetches a playlist once, and its file holds
\* what was fetched)
FetchedTrackIds == UNION {TrackIdsOf(playlistFiles[p].items) : p \in Saved}

\* the ids of the feature files the running command has written
WrittenFeatures ==
    {trace[a].id : a \in {b \in 1..Len(trace) : trace[b].op = "save_feature"}}

\* C17: the audio-feature calls of a pull or refresh carry exactly the
\* track ids of the non-null tracks of the playlists fetched in that run,
\* each id once, whether or not it has a feature file, and feature files
\* are written for requested ids only.
C17_FeaturesOfFetchedTracks ==
    cmd \in {"pull", "refresh"} /\ pc = "done" =>
       /\ Range(Flatten(FeatureCalls)) = FetchedTrackIds
       /\ Len(Flatten(FeatureCalls)) = Cardinality(FetchedTrackIds)
       /\ WrittenFeatures \subseteq Range(Flatten(FeatureCalls))
       /\ WrittenFeatures \subseteq featureFiles

\* the artist ids of the non-null tracks of the playlists fetched by the
\* running command
FetchedArtistIds == UNION {ArtistIdsOf(playlistFiles[p].items) : p \in Saved}

\* the ids in the artist aggregate
AggregateIds == {artistsFile.data[j].id : j \in 1..Len(artistsFile.data)}

\* C18: the bulk artist calls of a pull or refresh carry no id that the
\* aggregate held when the run started (the aggregate is not written
\* before the last of them) and carry no id twice; once they are through
\* they have carried every artist id of the playlists fetched that the
\* aggregate did not hold.
C18_NewArtistsOnce ==
    cmd \in {"pull", "refresh"} =>
       LET asked == Flatten(ArtistCalls)
       IN  /\ \A a, b \in 1..Len(asked) : a # b => asked[a] # asked[b]
           /\ WroteArtists \notin Range(trace) => Range(asked) \cap AggregateIds = {}
           /\ pc = "artist_save" => Range(asked) = FetchedArtistIds \ AggregateIds

\* C18's case: the second command fetched two playlists that both hold a
\* track of artists 1 and 2, the aggregate held artist 1, and the one
\* bulk call made carried artist 2
C18_Witness ==
    /\ runs = 2 /\ cmd \in {"pull", "refresh"} /\ pc = "artist_save"
    /\ AggregateIds = {1}
    /\ Cardinality(Saved) = 2
    /\ \A p \in Saved : ArtistIdsOf(playlistFiles[p].items) = {1, 2}
    /\ ArtistCalls = <<(<<2>>)>>

\* C19: a tag that runs on playlist files written by pull, with a device
\* and liked songs, reaches the menu after its first playback-start: every
\* entry it loaded from the playlist files carries the name and the id of
\* its playlist, and it does not end in an error raised while the menu is
\* printed, the song left playing.
C19_TagAfterPullReachesMenu ==
    /\ cmd = "tag"
    /\ \E a \in 1..Len(trace) : trace[a].op = "start_playback"
    /\ \E p \in DOMAIN playlistFiles : playlistFiles[p].kind = "list"
    => /\ \A j \in 1..Len(user_playlists) :
             /\ user_playlists[j].kind = "object"
             /\ user_playlists[j].name = PlaylistName(user_playlists[j].id)
       /\ ~(pc = "error" /\ trace[Len(trace)] = Raised("TypeError"))

\* a remote call of the running command has failed
IsRemoteFailure(e) == e.op = "raise" /\ e.what \in RemoteCallSites

\* the cache files change only in the steps that record their write, and
\* not when a command starts: a file with no write in trace is as it was
\* before the running command
WritesRecorded ==
    /\ \A p \in DOMAIN playlistFiles' :
          p \notin DOMAIN playlistFiles \/ playlistFiles'[p] # playlistFiles[p]
             => Len(SelectSeq(trace', LAMBDA e : e = WrotePlaylist(p)))
                   > Len(SelectSeq(trace, LAMBDA e : e = WrotePlaylist(p)))
    /\ DOMAIN playlistFiles \subseteq DOMAIN playlistFiles'
    /\ artistsFile' # artistsFile
          => WroteArtists \in Range(trace') /\ WroteArtists \notin Range(trace)
    /\ trace' = <<>> => UNCHANGED cacheVars

\* C20: a remote call that fails ends the command: nothing follows the
\* failure, the call is not made again.  What the command had not written
\* it leaves as it was: when a playlist-tracks call fails the file of the
\* playlist being paginated has not been written, and when a
\* playlist-tracks or bulk artist call fails the artist aggregate has not
\* been written.
C20_FailureLeavesUnwrittenFiles ==
    /\ [](\A a \in 1..Len(trace) :
             IsRemoteFailure(trace[a]) =>
                /\ a = Len(trace) /\ pc = "error"
                /\ trace[a].what = "tracks_page" => user_playlists[k].id \notin Saved
                /\ trace[a].what = "refresh_page" => PlaylistIdOf(filenames[k]) \notin Saved
                /\ trace[a].what \in {"tracks_page", "refresh_page", "artist_batch"}
                      => WroteArtists \notin Range(trace))
    /\ [][WritesRecorded]_vars

\* C20's case: the second page call of a playlist failed in a pull that ran
\* on a cache holding that playlist's track list and an artist aggregate
C20_Witness ==
    /\ cmd = "pull" /\ pc = "error" /\ runs = 2 /\ Len(trace) >= 2
    /\ trace[Len(trace)] = Raised("tracks_page")
    /\ trace[Len(trace) - 1].op = "playlist_tracks" /\ trace[Len(trace) - 1].n > 0
    /\ trace[Len(trace) - 1].id = user_playlists[k].id
    /\ user_playlists[k].id \in DOMAIN playlistFiles
    /\ playlistFiles[user_playlists[k].id].kind = "list"
    /\ Len(artistsFile.data) > 0

====
